---- MODULE Spec2Model ----
(***************************************************************************)
(* The frame decoder of dataanalyze.py: parse_frame walks a byte buffer    *)
(* left to right (header, data units, trailer) and parse_da_table_number   *)
(* turns the two DA bytes of a data unit into a table number.              *)
(*                                                                         *)
(* Bytes are integers 0..255 and a buffer is a sequence of bytes.  Python  *)
(* offsets are 0-based: byte i of the buffer is frame_bytes[i + 1] here.   *)
(* Python integers are unbounded; the decoded value of a data unit (up to  *)
(* 8 bytes wide) is kept as sign and magnitude, the magnitude as base-256  *)
(* digits without leading zeros.                                           *)
(***************************************************************************)
EXTENDS Integers, Sequences, FiniteSets, TLC

VARIABLES
    frame_bytes,      \* the argument of parse_frame
    offset,           \* the read offset
    pc,               \* "header", "scan", "trailer", "done", "error"; "da_call", "da_done"
    parsed,           \* the dict parse_frame fills and returns
    data_units,       \* the list of decoded data units
    da_val,           \* the DA bytes handed to parse_da_table_number
    da_table_number,  \* what parse_da_table_number returned
    iterations,       \* how many times the body of the while loop was entered
    error             \* the exception raised, if any

vars == <<frame_bytes, offset, pc, parsed, data_units, da_val, da_table_number,
          iterations, error>>

-----------------------------------------------------------------------------
(* Bounds of the model. *)

\* how many 4-byte pieces a generated frame body holds at most
MaxPieces == 3

-----------------------------------------------------------------------------
(* Python values. *)

Byte == 0 .. 255

\* Python's None, for the fields that otherwise hold a byte or a 16-bit number
None == -1

\* the placeholder 'var' that dt_mapping gives F2 as its length
Var == -2

\* bool(x) of an int (or of the non-empty string 'var')
Truthy(x) == x # 0

\* b[lo:hi] for 0 <= lo: clamped to the buffer, never an error
Slice(b, lo, hi) ==
    LET h == IF hi > Len(b) THEN Len(b) ELSE hi
    IN  IF lo >= h THEN << >> ELSE SubSeq(b, lo + 1, h)

\* whether b[i] exists (otherwise b[i] raises IndexError)
CanIndex(b, i) == i < Len(b)

\* b[i]
Index(b, i) == b[i + 1]

RECURSIVE int_from_bytes(_)
\* int.from_bytes(bs, byteorder='big') for the 2-byte fields (length, DT, text
\* length, crc)
int_from_bytes(bs) ==
    IF bs = << >> THEN 0
    ELSE int_from_bytes(SubSeq(bs, 1, Len(bs) - 1)) * 256 + bs[Len(bs)]

RECURSIVE StripZeros(_)
\* the base-256 digits of a magnitude without its leading zeros
StripZeros(bs) ==
    IF bs = << >> THEN << >>
    ELSE IF bs[1] = 0 THEN StripZeros(Tail(bs)) ELSE bs

\* a Python int as a value of a data unit
PyInt(neg, mag) == [type |-> "int", neg |-> neg, body |-> mag]

\* a Python str as a value of a data unit: its code points
PyStr(chars) == [type |-> "str", neg |-> FALSE, body |-> chars]

\* every byte complemented
Invert(bs) == [i \in DOMAIN bs |-> 255 - bs[i]]

RECURSIVE Increment(_)
\* the digits plus one, in the same width (the carry out of the top is dropped)
Increment(bs) ==
    IF bs = << >> THEN << >>
    ELSE IF bs[Len(bs)] = 255
         THEN Increment(SubSeq(bs, 1, Len(bs) - 1)) \o <<0>>
         ELSE SubSeq(bs, 1, Len(bs) - 1) \o <<bs[Len(bs)] + 1>>

\* int.from_bytes(bs, byteorder='big', signed=False)
from_bytes_unsigned(bs) == PyInt(FALSE, StripZeros(bs))

\* a decoder that forgets the sign
from_bytes_signed_nosign(bs) == PyInt(FALSE, StripZeros(bs))

\* int.from_bytes(bs, byteorder='big', signed=True): two's complement
from_bytes_signed(bs) ==
    IF bs = << >> \/ bs[1] < 128
    THEN PyInt(FALSE, StripZeros(bs))
    ELSE PyInt(TRUE, StripZeros(Increment(Invert(bs))))

HexDigits == <<"0", "1", "2", "3", "4", "5", "6", "7",
               "8", "9", "A", "B", "C", "D", "E", "F">>

\* bs.hex().upper(): two upper-case hex digits per byte
hex_upper(bs) ==
    [i \in 1 .. 2 * Len(bs) |->
        LET b == bs[(i + 1) \div 2]
        IN  HexDigits[(IF i % 2 = 1 THEN b \div 16 ELSE b % 16) + 1]]

\* a decoder that keeps the bytes that are not ASCII
decode_ascii_keep(bs) == PyStr(bs)

\* bs.decode('ascii', errors='ignore'): the bytes >= 0x80 are dropped
decode_ascii_ignore(bs) == PyStr(SelectSeq(bs, LAMBDA b : b < 128))

-----------------------------------------------------------------------------
(* parse_da_table_number *)

\* da_l & (1 << i), as a truth value
BitSet(x, i) == (x \div (2 ^ i)) % 2 = 1

RECURSIVE TableLoop(_, _, _)
\* the for loop over range(8), from index i on
TableLoop(base_number, da_l, i) ==
    IF i >= 8 THEN 0
    ELSE (IF BitSet(da_l, i) THEN base_number + i ELSE 0)
         + TableLoop(base_number, da_l, i + 1)

\* the table number counted from 0: the base taken as (da_h - 1) * 8
parse_da_table_number_from0(da_bytes) ==
    TableLoop((da_bytes[1] - 1) * 8, da_bytes[2], 0)

\* the table number with the base taken as da_h * 8 + 1
parse_da_table_number_base(da_bytes) ==
    TableLoop(da_bytes[1] * 8 + 1, da_bytes[2], 0)

parse_da_table_number(da_bytes) ==
    LET da_h == da_bytes[1]
        da_l == da_bytes[2]
        base_number == (da_h - 1) * 8 + 1
    IN  TableLoop(base_number, da_l, 0)

-----------------------------------------------------------------------------
(* The tests parse_frame makes on the bytes that remain. *)

\* a loop that runs while the header's length field, not the buffer, has
\* bytes left
LoopConditionDeclared(buf, off) == (int_from_bytes(Slice(buf, 1, 3)) - off) > 3

\* a loop that also runs on the last three bytes
LoopConditionGe3(buf, off) == (Len(buf) - off) >= 3

\* while (len(frame_bytes) - offset) > 3
LoopCondition(buf, off) == (Len(buf) - off) > 3

\* if (len(frame_bytes) - offset) < 4: break
HeaderShort(buf, off) == (Len(buf) - off) < 4

\* if (len(frame_bytes) - offset) < 2: break      (the text length prefix)
PrefixShort(buf, off) == (Len(buf) - off) < 2

\* a check that lets a text of one byte too many through
PayloadShortOffByOne(buf, off, ascii_length) == (Len(buf) - off) < ascii_length - 1

\* if (len(frame_bytes) - offset) < ascii_length: break
PayloadShort(buf, off, ascii_length) == (Len(buf) - off) < ascii_length

\* if (len(frame_bytes) - offset) < fixed_length: break
ValueShort(buf, off, fixed_length) == (Len(buf) - off) < fixed_length

\* the gate on the function code without the direction bit
ResultCodeGateMasked(dir, afn) == dir = 1 /\ afn % 128 = 6

\* if parsed['dir'] == 1 and parsed['afn'] == 6
ResultCodeGate(dir, afn) == dir = 1 /\ afn = 6

\* if (len(frame_bytes) - offset) < 1: break      (the result code)
ResultCodeShort(buf, off) == (Len(buf) - off) < 1

\* a crc read whenever one byte remains
HasCrcGe1(buf, off) == (Len(buf) - off) >= 1

\* if (len(frame_bytes) - offset) >= 2            (the crc)
HasCrc(buf, off) == (Len(buf) - off) >= 2

\* an end flag read only when two bytes remain
HasEndFlagGe2(buf, off) == (Len(buf) - off) >= 2

\* an end flag read even when no byte remains
HasEndFlagGe0(buf, off) == (Len(buf) - off) >= 0

\* if (len(frame_bytes) - offset) >= 1            (the end flag)
HasEndFlag(buf, off) == (Len(buf) - off) >= 1

\* dt_mapping.get(dt_int, ('F1', 4))
dt_mapping_get(dt_int) ==
    CASE dt_int = 1 -> [data_type |-> "F1", fixed_length |-> 4]
      [] dt_int = 2 -> [data_type |-> "F2", fixed_length |-> Var]
      [] dt_int = 8 -> [data_type |-> "F4", fixed_length |-> 8]
      [] dt_int = 4 -> [data_type |-> "F3", fixed_length |-> 4]
      [] OTHER      -> [data_type |-> "F1", fixed_length |-> 4]

\* the direction taken from bit 6
direction_bit6(afn) == (afn \div 64) % 2

\* (parsed['afn'] & 0x80) >> 7
direction(afn) == (afn \div 128) % 2

-----------------------------------------------------------------------------
(* The buffers parse_frame is run on. *)

\* the frame of the module docstring (the usage example), 178 bytes
SampleFrame ==
    <<104, 0, 171, 104, 35, 53, 0, 16, 0, 0, 0, 17, 6, 49, 97,
      6, 128, 0, 1, 0, 0, 0, 1,      18, 64, 0, 1, 0, 0, 5, 10,
      18, 128, 0, 1, 0, 0, 0, 30,    19, 1, 0, 1, 0, 0, 1, 244,
      39, 32, 0, 4, 0, 0, 0, 1,      19, 2, 0, 1, 0, 0, 0, 30,
      19, 4, 0, 1, 0, 0, 1, 14,      19, 8, 0, 1, 0, 0, 7, 208,
      39, 64, 0, 4, 0, 0, 0, 1,      19, 16, 0, 1, 0, 0, 1, 14,
      19, 32, 0, 1, 0, 0, 1, 194,    19, 64, 0, 1, 0, 0, 3, 32,
      39, 128, 0, 4, 0, 0, 0, 1,     19, 128, 0, 1, 0, 0, 1, 224,
      20, 1, 0, 1, 0, 0, 5, 10,      20, 2, 0, 1, 255, 255, 254, 12,
      40, 1, 0, 4, 0, 0, 0, 1,       39, 8, 0, 1, 0, 0, 0, 0,
      39, 16, 0, 4, 0, 0, 0, 0,      15, 1, 0, 4, 0, 0, 0, 29,
      50, 63, 22>>

\* the function bytes tried: function 6 outbound and inbound
FunctionBytes == {6, 134}

\* the sample's header with another function byte
Header(afn) == SubSeq(SampleFrame, 1, 12) \o <<afn>> \o SubSeq(SampleFrame, 14, 15)

\* the sample's trailer: crc 323F, end flag 16
Trailer == SubSeq(SampleFrame, 176, 178)

\* 4-byte pieces a body is put together from: DA+DT of every kind, values,
\* text length prefixes with the start of a text, the end of a text
Pieces ==
    { <<1, 1, 0, 1>>,           \* DA 0101, DT 1
      <<2, 1, 0, 8>>,           \* DA 0201, DT 8
      <<1, 3, 0, 2>>,           \* DA 0103, DT 2 (text)
      <<255, 255, 255, 255>>,   \* the value -1; DT FFFF; a text length of 65535
      <<0, 0, 0, 1>>,           \* the value 1; DA 0000, DT 1; a text length of 0
      <<0, 3, 65, 66>>,         \* text length 3, "AB"
      <<0, 2, 200, 67>>,        \* text length 2, a byte that is not ASCII, "C"
      <<67, 50, 63, 22>> }      \* "C", then a trailer

RECURSIVE Flatten(_)
Flatten(ss) == IF ss = << >> THEN << >> ELSE ss[1] \o Flatten(Tail(ss))

\* the first 0 to 3 bytes of the sequences of S
Starts(S) == { SubSeq(p, 1, k) : p \in S, k \in 0 .. 3 }

\* what may follow a body of n pieces: the trailer or a part of it, or (when
\* the body is not yet at its bound) a part of a further piece
Tails(n) == IF n < MaxPieces THEN Starts(Pieces \cup {Trailer}) ELSE Starts({Trailer})

\* the length fields tried: the sample's 00AB, one far shorter and one far
\* longer than any buffer
LengthFields == { <<0, 171>>, <<0, 4>>, <<255, 255>> }

\* buffer b with bytes 1..2 (the length field) replaced
WithLength(b, lf) == SubSeq(b, 1, 1) \o lf \o SubSeq(b, 4, Len(b))

\* b is a prefix of: a header, up to MaxPieces pieces, the trailer; or of the
\* sample frame; or the sample frame with another length field
IsBuffer(b) ==
    \/ \E n \in 0 .. Len(SampleFrame) : b = SubSeq(SampleFrame, 1, n)
    \/ \E lf \in LengthFields : b = WithLength(SampleFrame, lf)
    \/ \E afn \in FunctionBytes, lf \in LengthFields, n \in 0 .. 14 :
         b = SubSeq(WithLength(Header(afn), lf), 1, n)
    \/ \E afn \in FunctionBytes, lf \in LengthFields, n \in 0 .. MaxPieces :
         \E ps \in [1 .. n -> Pieces], t \in Tails(n) :
            b = WithLength(Header(afn), lf) \o Flatten(ps) \o t

-----------------------------------------------------------------------------
(* parse_frame *)

\* the dict before any field is set
EmptyParsed ==
    [start_flag |-> None, length |-> None, start_flag2 |-> None,
     address |-> << >>, afn |-> None, dir |-> None, seq |-> << >>,
     crc |-> None, end_flag |-> None]

Init ==
    /\ IsBuffer(frame_bytes)
    /\ offset = 0
    /\ pc = "header"
    /\ parsed = EmptyParsed
    /\ data_units = << >>
    /\ da_val = << >>
    /\ da_table_number = None
    /\ iterations = 0
    /\ error = "none"

\* the header: frame_bytes[0], [1:3], [3], [4:12], [12], [13:15]; an index that
\* does not exist raises IndexError, a slice never does
ReadHeader ==
    /\ pc = "header"
    /\ IF CanIndex(frame_bytes, 0) /\ CanIndex(frame_bytes, 3) /\ CanIndex(frame_bytes, 12)
       THEN /\ parsed' =
                 [parsed EXCEPT
                    !.start_flag = Index(frame_bytes, 0),
                    !.length = int_from_bytes(Slice(frame_bytes, 1, 3)),
                    !.start_flag2 = Index(frame_bytes, 3),
                    !.address = Slice(frame_bytes, 4, 12),
                    !.afn = Index(frame_bytes, 12),
                    !.dir = direction(Index(frame_bytes, 12)),
                    !.seq = Slice(frame_bytes, 13, 15)]
            /\ offset' = 15
            /\ pc' = "scan"
            /\ error' = error
       ELSE /\ pc' = "error"
            /\ error' = "IndexError"
            /\ UNCHANGED <<parsed, offset>>
    /\ UNCHANGED <<frame_bytes, data_units, da_val, da_table_number, iterations>>

\* an iteration that left the loop by break at offset off
Break(off, da, tn) ==
    [brk |-> TRUE, offset |-> off, da_val |-> da, da_table_number |-> tn,
     unit |-> << >>]

\* an iteration that appended a unit and ended at offset off
Appended(off, da, tn, dt, m, value, result_code, length) ==
    [brk |-> FALSE, offset |-> off, da_val |-> da, da_table_number |-> tn,
     unit |-> [DA |-> hex_upper(da), DA_table_number |-> tn, DT |-> hex_upper(dt),
               value |-> value, result_code |-> result_code,
               data_type |-> m.data_type, length |-> length]]

\* the result code and the append that end an iteration whose value was read
\* up to offset off
FinishUnit(buf, off, dir, afn, da, tn, dt, m, value, length) ==
    IF ResultCodeGate(dir, afn)
    THEN IF ResultCodeShort(buf, off)
         THEN Break(off, da, tn)
         ELSE Appended(off + 1, da, tn, dt, m, value, Index(buf, off), length)
    ELSE Appended(off, da, tn, dt, m, value, None, length)

\* one iteration of the while loop, entered at offset off0 with at least 4
\* bytes remaining
scan_unit(buf, off0, dir, afn) ==
    LET da_dt == Slice(buf, off0, off0 + 4)
        off1 == off0 + 4
        da == SubSeq(da_dt, 1, 2)
        tn == parse_da_table_number(da)
        dt == SubSeq(da_dt, 3, 4)
        dt_int == int_from_bytes(dt)
        m == dt_mapping_get(dt_int)
    IN  IF m.data_type = "F2"
        THEN IF PrefixShort(buf, off1)
             THEN Break(off1, da, tn)
             ELSE LET ascii_length == int_from_bytes(Slice(buf, off1, off1 + 2))
                      off2 == off1 + 2
                  IN  IF PayloadShort(buf, off2, ascii_length)
                      THEN Break(off2, da, tn)
                      ELSE LET data_val == Slice(buf, off2, off2 + ascii_length)
                           IN  FinishUnit(buf, off2 + ascii_length, dir, afn, da, tn,
                                          dt, m, decode_ascii_ignore(data_val),
                                          ascii_length)
        ELSE IF Truthy(m.fixed_length)
        THEN IF ValueShort(buf, off1, m.fixed_length)
             THEN Break(off1, da, tn)
             ELSE LET data_val == Slice(buf, off1, off1 + m.fixed_length)
                      data_result ==
                          IF m.data_type \in {"F1", "F3"}
                          THEN from_bytes_signed(data_val)
                          ELSE IF m.data_type = "F4"
                          THEN from_bytes_unsigned(data_val)
                          ELSE PyStr(hex_upper(data_val))   \* 'F5'
                  IN  FinishUnit(buf, off1 + m.fixed_length, dir, afn, da, tn,
                                 dt, m, data_result, m.fixed_length)
        ELSE Break(off1, da, tn)

\* the loop test holds: one iteration
ScanUnit ==
    /\ pc = "scan"
    /\ LoopCondition(frame_bytes, offset)
    /\ iterations' = iterations + 1
    /\ IF HeaderShort(frame_bytes, offset)
       THEN /\ pc' = "trailer"
            /\ UNCHANGED <<offset, data_units, da_val, da_table_number>>
       ELSE LET r == scan_unit(frame_bytes, offset, parsed.dir, parsed.afn)
            IN  /\ offset' = r.offset
                /\ da_val' = r.da_val
                /\ da_table_number' = r.da_table_number
                /\ IF r.brk
                   THEN pc' = "trailer" /\ data_units' = data_units
                   ELSE pc' = "scan" /\ data_units' = Append(data_units, r.unit)
    /\ UNCHANGED <<frame_bytes, parsed, error>>

\* the loop test fails: on to the trailer
ScanExit ==
    /\ pc = "scan"
    /\ ~LoopCondition(frame_bytes, offset)
    /\ pc' = "trailer"
    /\ UNCHANGED <<frame_bytes, offset, parsed, data_units, da_val,
                   da_table_number, iterations, error>>

\* the crc and the end flag, then return parsed
ReadTrailer ==
    /\ pc = "trailer"
    /\ LET has_crc == HasCrc(frame_bytes, offset)
           crc == IF has_crc
                  THEN int_from_bytes(Slice(frame_bytes, offset, offset + 2))
                  ELSE None
           off1 == IF has_crc THEN offset + 2 ELSE offset
       IN  IF HasEndFlag(frame_bytes, off1)
           THEN IF CanIndex(frame_bytes, off1)
                THEN /\ parsed' = [parsed EXCEPT !.crc = crc,
                                                 !.end_flag = Index(frame_bytes, off1)]
                     /\ offset' = off1 + 1
                     /\ pc' = "done"
                     /\ error' = error
                ELSE /\ parsed' = [parsed EXCEPT !.crc = crc]
                     /\ offset' = off1
                     /\ pc' = "error"
                     /\ error' = "IndexError"
           ELSE /\ parsed' = [parsed EXCEPT !.crc = crc, !.end_flag = None]
                /\ offset' = off1
                /\ pc' = "done"
                /\ error' = error
    /\ UNCHANGED <<frame_bytes, data_units, da_val, da_table_number, iterations>>

RECURSIVE scan_loop(_, _, _, _, _)
\* the while loop as a whole, from offset off with the units appended so far:
\* where it stops and what it has appended
scan_loop(buf, off, dir, afn, units) ==
    IF ~LoopCondition(buf, off) \/ HeaderShort(buf, off)
    THEN [offset |-> off, data_units |-> units]
    ELSE LET r == scan_unit(buf, off, dir, afn)
         IN  IF r.brk
             THEN [offset |-> r.offset, data_units |-> units]
             ELSE scan_loop(buf, r.offset, dir, afn, Append(units, r.unit))

\* parse_frame as a function of its argument: whether it raised, and the dict
\* and the data units it returned
parse_frame(buf) ==
    IF ~(CanIndex(buf, 0) /\ CanIndex(buf, 3) /\ CanIndex(buf, 12))
    THEN [raised |-> TRUE, parsed |-> EmptyParsed, data_units |-> << >>]
    ELSE LET afn == Index(buf, 12)
             dir == direction(afn)
             scan == scan_loop(buf, 15, dir, afn, << >>)
             has_crc == HasCrc(buf, scan.offset)
             off1 == IF has_crc THEN scan.offset + 2 ELSE scan.offset
         IN  [raised |-> HasEndFlag(buf, off1) /\ ~CanIndex(buf, off1),
              parsed |->
                 [start_flag |-> Index(buf, 0),
                  length |-> int_from_bytes(Slice(buf, 1, 3)),
                  start_flag2 |-> Index(buf, 3),
                  address |-> Slice(buf, 4, 12),
                  afn |-> afn,
                  dir |-> dir,
                  seq |-> Slice(buf, 13, 15),
                  crc |-> IF has_crc
                          THEN int_from_bytes(Slice(buf, scan.offset, scan.offset + 2))
                          ELSE None,
                  end_flag |-> IF HasEndFlag(buf, off1) /\ CanIndex(buf, off1)
                               THEN Index(buf, off1) ELSE None],
              data_units |-> scan.data_units]

Next == ReadHeader \/ ScanUnit \/ ScanExit \/ ReadTrailer

Spec == Init /\ [][Next]_vars

-----------------------------------------------------------------------------
(* parse_da_table_number on its own: every pair of DA bytes. *)

InitDA ==
    /\ frame_bytes = << >>
    /\ offset = 0
    /\ pc = "da_call"
    /\ parsed = EmptyParsed
    /\ data_units = << >>
    /\ da_val \in Byte \X Byte
    /\ da_table_number = None
    /\ iterations = 0
    /\ error = "none"

CallTableNumber ==
    /\ pc = "da_call"
    /\ da_table_number' = parse_da_table_number(da_val)
    /\ pc' = "da_done"
    /\ UNCHANGED <<frame_bytes, offset, parsed, data_units, da_val, iterations, error>>

NextDA == CallTableNumber

SpecDA == InitDA /\ [][NextDA]_vars

-----------------------------------------------------------------------------
(* What the properties below are stated with. *)

\* the buffer's length and byte i (0-based), read directly
BufLen == Len(frame_bytes)
ByteAt(i) == frame_bytes[i + 1]

\* parse_frame has returned parsed
Returned == pc = "done"

\* the last unit appended
LastUnit == data_units[Len(data_units)]

\* whether unit u carries a result code
HasResultCode(u) == u.result_code # None

RECURSIVE Digits256(_)
\* the base-256 digits of a natural number, most significant first
Digits256(n) == IF n = 0 THEN << >> ELSE Digits256(n \div 256) \o <<n % 256>>

\* the integer n as the value of a data unit
IntValue(n) == PyInt(n < 0, Digits256(IF n < 0 THEN -n ELSE n))

\* four bytes as a 32-bit two's complement number
Signed32(b) ==
    (IF b[1] >= 128 THEN b[1] - 256 ELSE b[1]) * 16777216
    + b[2] * 65536 + b[3] * 256 + b[4]

\* the bytes unit u spans: DA and DT, the length prefix of a text, the value,
\* the result code
UnitSpan(u) ==
    4 + (IF u.data_type = "F2" THEN 2 ELSE 0) + u.length
      + (IF HasResultCode(u) THEN 1 ELSE 0)

RECURSIVE SumSpans(_)
SumSpans(us) == IF us = << >> THEN 0 ELSE UnitSpan(us[1]) + SumSpans(Tail(us))

\* the step is one iteration of the data-unit loop
IterationStep == pc = "scan" /\ iterations' = iterations + 1

\* the step appended a unit
AppendStep == IterationStep /\ Len(data_units') = Len(data_units) + 1

-----------------------------------------------------------------------------
(* C1 *)

\* C1: after the header step every buffer shorter than 15 bytes has failed:
\* an exception was raised and parse_frame goes on to return nothing.
C1_ShortBufferFails ==
    (BufLen < 15 /\ pc # "header") => (pc = "error" /\ error # "none")

-----------------------------------------------------------------------------
(* C2 *)

\* C2: a unit whose type word is not 2 took exactly the 4 bytes after its DA
\* and DT as its value: unsigned for type word 8, two's complement otherwise.
C2_FixedValueFourBytes ==
    (pc = "scan" /\ data_units # << >> /\ LastUnit.data_type # "F2") =>
        LET u == LastUnit
            vend == offset - (IF HasResultCode(u) THEN 1 ELSE 0)
            value_bytes == SubSeq(frame_bytes, vend - 3, vend)
            dt == SubSeq(frame_bytes, vend - 5, vend - 4)
        IN  /\ u.length = 4
            /\ u.DT = hex_upper(dt)
            /\ u.value = IF dt = <<0, 8>>
                         THEN PyInt(FALSE, StripZeros(value_bytes))
                         ELSE IntValue(Signed32(value_bytes))

-----------------------------------------------------------------------------
(* C3 *)

\* C3: in a frame whose function byte is 0x86 every unit carries a result
\* code; in a frame whose function byte is 0x06 none does.
C3_InboundResultCode ==
    pc \in {"scan", "trailer", "done"} =>
        \A i \in 1 .. Len(data_units) :
            /\ parsed.afn = 134 => HasResultCode(data_units[i])
            /\ parsed.afn = 6 => ~HasResultCode(data_units[i])

-----------------------------------------------------------------------------
(* C4 *)

\* C4: when the scan has stopped the offset is 15 plus the spans of the
\* appended units: no byte of a unit that could not be completed is consumed.
C4_NoPartialConsumption ==
    pc = "trailer" => offset = 15 + SumSpans(data_units)

-----------------------------------------------------------------------------
(* C5 *)

\* the iteration starts on a unit of type word 2 whose 2 length bytes exist
TextUnitAt(o) == BufLen - o >= 6 /\ ByteAt(o + 2) = 0 /\ ByteAt(o + 3) = 2

\* the text length declared at the unit starting at o
TextLengthAt(o) == ByteAt(o + 4) * 256 + ByteAt(o + 5)

RECURSIVE DropHigh(_)
\* the bytes below 0x80, in order
DropHigh(bs) ==
    IF bs = << >> THEN << >>
    ELSE (IF bs[1] >= 128 THEN << >> ELSE <<bs[1]>>) \o DropHigh(Tail(bs))

\* C5: an iteration on a text unit with declared length L either finds L
\* bytes, consumes exactly them and appends a unit whose value is the payload
\* without its bytes >= 0x80 and whose length is L, or finds fewer, stops the
\* scan and appends nothing; once the scan has stopped no unit is added.
C5_TextUnit ==
    [][ /\ (IterationStep /\ TextUnitAt(offset)) =>
            LET L == TextLengthAt(offset)
                payload == SubSeq(frame_bytes, offset + 7, offset + 6 + L)
            IN  IF BufLen - (offset + 6) >= L
                THEN /\ AppendStep
                     /\ LET u == data_units'[Len(data_units')]
                        IN  /\ u.value = PyStr(DropHigh(payload))
                            /\ Len(u.value.body) <= L
                            /\ u.length = L
                            /\ offset' = offset + 6 + L
                                         + (IF HasResultCode(u) THEN 1 ELSE 0)
                            /\ (payload = <<65, 66, 67>> =>
                                   u.value.body = <<65, 66, 67>>)
                ELSE /\ data_units' = data_units
                     /\ pc' = "trailer"
        /\ pc \in {"trailer", "done"} => data_units' = data_units
      ]_vars

\* a text unit with length bytes 0003 and payload 41 42 43 was decoded
C5_Witness ==
    /\ pc = "scan" /\ data_units # << >>
    /\ LastUnit.data_type = "F2" /\ LastUnit.length = 3
    /\ LastUnit.value = PyStr(<<65, 66, 67>>)
    /\ SubSeq(frame_bytes, offset - 4, offset) = <<0, 3, 65, 66, 67>>

-----------------------------------------------------------------------------
(* C6 *)

\* the k-th 8-byte group after the header of the sample frame
SampleGroup(k) == SubSeq(SampleFrame, 8 * k + 8, 8 * k + 15)

\* the sample frame: 178 bytes, header 68 00AB 68, address, function 06,
\* sequence 3161; decoded: 20 units that are the 8-byte groups in order, the
\* first 0680/0001/1, the sixteenth 1402/0001/-500, the last 0F01/0004/29,
\* crc 323F, end flag 16
SampleDecoded ==
    /\ Len(SampleFrame) = 178
    /\ SubSeq(SampleFrame, 1, 15)
         = <<104, 0, 171, 104, 35, 53, 0, 16, 0, 0, 0, 17, 6, 49, 97>>
    /\ Len(data_units) = 20
    /\ \A k \in 1 .. 20 :
         /\ data_units[k].DA = hex_upper(SubSeq(SampleGroup(k), 1, 2))
         /\ data_units[k].DT = hex_upper(SubSeq(SampleGroup(k), 3, 4))
         /\ data_units[k].value = IntValue(Signed32(SubSeq(SampleGroup(k), 5, 8)))
    /\ data_units[1].DA = <<"0", "6", "8", "0">>
    /\ data_units[1].DT = <<"0", "0", "0", "1">>
    /\ data_units[1].value = IntValue(1)
    /\ data_units[16].DA = <<"1", "4", "0", "2">>
    /\ data_units[16].DT = <<"0", "0", "0", "1">>
    /\ data_units[16].value = IntValue(-500)
    /\ data_units[20].DA = <<"0", "F", "0", "1">>
    /\ data_units[20].DT = <<"0", "0", "0", "4">>
    /\ data_units[20].value = IntValue(29)
    /\ parsed.crc = 12863
    /\ parsed.end_flag = 22

\* C6 as stated: the sample decodes as above and the table number of its
\* first unit is 4.
C6_SampleTableNumber4 ==
    (frame_bytes = SampleFrame /\ Returned) =>
        (SampleDecoded /\ data_units[1].DA_table_number = 4)

\* C6, amended: the sample decodes as above and the table number of its first
\* unit (DA 06 80: base 41, bit 7) is 48.
C6_SampleDecodes ==
    (frame_bytes = SampleFrame /\ Returned) =>
        (SampleDecoded /\ data_units[1].DA_table_number = 48)

\* the sample frame was decoded to its end
C6_Witness == frame_bytes = SampleFrame /\ Returned /\ Len(data_units) = 20

-----------------------------------------------------------------------------
(* C7 *)

\* C7: on a buffer of at least 15 bytes no exception is raised at any step,
\* whatever the scan and the trailer find; a buffer of exactly 15 bytes
\* returns no data units, crc None and end_flag None.
C7_GracefulTruncation ==
    /\ BufLen >= 15 =>
          /\ pc \in {"header", "scan", "trailer", "done"}
          /\ error = "none"
    /\ (BufLen = 15 /\ Returned) =>
          /\ data_units = << >>
          /\ parsed.crc = None
          /\ parsed.end_flag = None

\* a buffer that ends right after its header was decoded
C7_Witness == BufLen = 15 /\ Returned /\ data_units = << >>

-----------------------------------------------------------------------------
(* C8 *)

\* C8: the trailer step, taken at offset p with r bytes remaining, sets crc
\* to the big-endian value of bytes p, p+1 if r >= 2 and to None otherwise,
\* and end_flag to the byte after the crc step if one remains and to None
\* otherwise; nothing else of the result changes.
C8_Trailer ==
    [][ pc = "trailer" =>
          LET p == offset
              r == BufLen - p
              after == IF r >= 2 THEN p + 2 ELSE p
          IN  /\ parsed'.crc = (IF r >= 2 THEN ByteAt(p) * 256 + ByteAt(p + 1) ELSE None)
              /\ parsed'.end_flag = (IF BufLen - after >= 1 THEN ByteAt(after) ELSE None)
              /\ (r = 1 => parsed'.crc = None /\ parsed'.end_flag = ByteAt(p))
              /\ data_units' = data_units
              /\ parsed' = [parsed EXCEPT !.crc = parsed'.crc,
                                          !.end_flag = parsed'.end_flag]
              /\ Returned'
      ]_vars

\* a frame was returned whose scan had stopped one byte before the end
C8_Witness ==
    /\ Returned /\ BufLen >= 16
    /\ parsed.crc = None /\ parsed.end_flag = ByteAt(BufLen - 1)
    /\ offset = BufLen

-----------------------------------------------------------------------------
(* C9 *)

\* the indices of the bits set in x
SetBits(x) == { i \in 0 .. 7 : (x \div (2 ^ i)) % 2 = 1 }

RECURSIVE SumSet(_)
SumSet(S) == IF S = { } THEN 0 ELSE LET x == CHOOSE y \in S : TRUE
                                    IN  x + SumSet(S \ {x})

\* C9: the table number of (DA_H, DA_L) is the sum over the set bits i of
\* DA_L of (DA_H - 1) * 8 + 1 + i; (1, 01) gives 1, (2, 01) gives 9,
\* (1, 03) gives 3 and DA_L = 0 gives 0.
C9_TableNumber ==
    pc = "da_done" =>
        LET da_h == da_val[1]
            da_l == da_val[2]
        IN  /\ da_table_number
                 = Cardinality(SetBits(da_l)) * ((da_h - 1) * 8 + 1)
                   + SumSet(SetBits(da_l))
            /\ (da_val = <<1, 1>> => da_table_number = 1)
            /\ (da_val = <<2, 1>> => da_table_number = 9)
            /\ (da_val = <<1, 3>> => da_table_number = 3)
            /\ (da_l = 0 => da_table_number = 0)

\* the table number of a DA with several bits set was computed
C9_Witness == pc = "da_done" /\ da_val = <<1, 3>> /\ da_table_number = 3

-----------------------------------------------------------------------------
(* C10 *)

\* C10: while the loop runs every iteration so far has advanced the offset by
\* at least 4, and on a buffer of n >= 15 bytes the iterations and the units
\* number at most (n - 15) \div 4 each, which bounds the run of the loop; the
\* loop body is never entered on a shorter buffer.
C10_LoopBound ==
    /\ pc = "scan" => offset >= 15 + 4 * iterations
    /\ Len(data_units) <= iterations
    /\ BufLen >= 15 =>
          /\ iterations <= (BufLen - 15) \div 4
          /\ Len(data_units) <= (BufLen - 15) \div 4
    /\ BufLen < 15 => iterations = 0

\* the loop ran as often as the bound allows, more than once
C10_Witness ==
    /\ Returned /\ iterations >= 2
    /\ iterations = (BufLen - 15) \div 4

-----------------------------------------------------------------------------
(* C11 *)

\* what stands for a body that is not a sequence of complete units
NoUnits == << [start |-> -1, text |-> FALSE, len |-> 0] >>

RECURSIVE CompleteUnits(_, _, _)
\* the bytes from o up to e read as complete units of type word 1 or 4 (4
\* value bytes) or 2 (2 length bytes L, L payload bytes): where each starts,
\* whether it is a text, its declared length; NoUnits if they are not that
CompleteUnits(o, e, acc) ==
    IF o = e THEN acc
    ELSE IF e - o < 4 \/ ByteAt(o + 2) # 0 \/ ByteAt(o + 3) \notin {1, 2, 4}
    THEN NoUnits
    ELSE IF ByteAt(o + 3) = 2
    THEN IF e - o < 6 \/ e - o - 6 < ByteAt(o + 4) * 256 + ByteAt(o + 5)
         THEN NoUnits
         ELSE CompleteUnits(o + 6 + ByteAt(o + 4) * 256 + ByteAt(o + 5), e,
                            Append(acc, [start |-> o, text |-> TRUE,
                                         len |-> ByteAt(o + 4) * 256 + ByteAt(o + 5)]))
    ELSE IF e - o < 8
         THEN NoUnits
         ELSE CompleteUnits(o + 8, e,
                            Append(acc, [start |-> o, text |-> FALSE, len |-> 4]))

\* the units of a buffer made of a header, complete units and a 3-byte trailer
FrameUnits == IF BufLen < 18 THEN NoUnits ELSE CompleteUnits(15, BufLen - 3, << >>)

\* the buffer is an outbound frame of that make
WellFormedOutbound == BufLen >= 18 /\ ByteAt(12) < 128 /\ FrameUnits # NoUnits

\* unit u is the decoding of the complete unit r
DecodesAs(u, r) ==
    /\ u.DA = hex_upper(SubSeq(frame_bytes, r.start + 1, r.start + 2))
    /\ u.DT = hex_upper(SubSeq(frame_bytes, r.start + 3, r.start + 4))
    /\ u.length = r.len
    /\ u.result_code = None
    /\ u.value = IF r.text
                 THEN PyStr(DropHigh(SubSeq(frame_bytes, r.start + 7, r.start + 6 + r.len)))
                 ELSE IntValue(Signed32(SubSeq(frame_bytes, r.start + 5, r.start + 8)))

\* C11: an outbound buffer made of a header, n complete units (type word 1 or
\* 4 with 4 value bytes, type word 2 with its declared payload) and a 3-byte
\* trailer decodes to exactly those n units in order, the crc of the first
\* two trailer bytes and the end flag of the last, the whole buffer consumed.
C11_TrailerNotAUnit ==
    (Returned /\ WellFormedOutbound) =>
        /\ Len(data_units) = Len(FrameUnits)
        /\ \A k \in 1 .. Len(FrameUnits) : DecodesAs(data_units[k], FrameUnits[k])
        /\ parsed.crc = ByteAt(BufLen - 3) * 256 + ByteAt(BufLen - 2)
        /\ parsed.end_flag = ByteAt(BufLen - 1)
        /\ offset = BufLen

\* a frame of a text unit and a trailer was decoded
C11_Witness ==
    /\ Returned /\ WellFormedOutbound
    /\ Len(FrameUnits) = 1 /\ FrameUnits[1].text /\ FrameUnits[1].len = 3
    /\ Len(data_units) = 1

-----------------------------------------------------------------------------
(* C12 *)

\* where the k-th appended unit starts if the units before it lie end to end
\* from offset 15
UnitStart(k) == 15 + SumSpans(SubSeq(data_units, 1, k - 1))

\* C12: the appended units lie end to end from offset 15 in buffer order:
\* the k-th starts where the spans of those before it end, its DA and DT (and
\* the length prefix of a text) are the bytes found there, its span (4, plus
\* 2 for a text, plus its declared length, plus 1 with a result code) ends
\* inside the buffer, and while the loop runs the offset is the end of the
\* last span.
C12_ContiguousSpans ==
    pc \in {"scan", "trailer", "done"} =>
        /\ \A k \in 1 .. Len(data_units) :
              LET u == data_units[k]
                  s == UnitStart(k)
              IN  /\ s + UnitSpan(u) <= BufLen
                  /\ u.DA = hex_upper(SubSeq(frame_bytes, s + 1, s + 2))
                  /\ u.DT = hex_upper(SubSeq(frame_bytes, s + 3, s + 4))
                  /\ u.data_type = "F2" =>
                        u.length = ByteAt(s + 4) * 256 + ByteAt(s + 5)
        /\ pc = "scan" => offset = 15 + SumSpans(data_units)

\* the loop stands after a second unit, which starts where the first ends
C12_Witness ==
    /\ pc = "scan" /\ Len(data_units) = 2
    /\ UnitStart(2) = 15 + UnitSpan(data_units[1])
    /\ offset = UnitStart(2) + UnitSpan(data_units[2])

-----------------------------------------------------------------------------
(* C13 *)

\* C13: once the header of a buffer of at least 15 bytes is read, start_flag
\* is byte 0, length the big-endian value of bytes 1..2, start_flag2 byte 3,
\* address bytes 4..11, function_code byte 12 as it stands, direction its bit
\* 7, sequence bytes 13..14; and the scan starts at offset 15.
C13_HeaderFields ==
    (BufLen >= 15 /\ pc \in {"scan", "trailer", "done"}) =>
        /\ parsed.start_flag = ByteAt(0)
        /\ parsed.length = ByteAt(1) * 256 + ByteAt(2)
        /\ parsed.start_flag2 = ByteAt(3)
        /\ parsed.address = <<ByteAt(4), ByteAt(5), ByteAt(6), ByteAt(7),
                              ByteAt(8), ByteAt(9), ByteAt(10), ByteAt(11)>>
        /\ parsed.afn = ByteAt(12)
        /\ parsed.dir = (IF ByteAt(12) >= 128 THEN 1 ELSE 0)
        /\ parsed.seq = <<ByteAt(13), ByteAt(14)>>
        /\ (pc = "scan" /\ iterations = 0) => offset = 15

\* the header of an inbound frame with length field FFFF was read
C13_Witness ==
    /\ pc = "scan" /\ iterations = 0 /\ BufLen >= 15
    /\ parsed.length = 65535 /\ parsed.afn = 134 /\ parsed.dir = 1

-----------------------------------------------------------------------------
(* C14 *)

\* C14: the frame returned for a buffer and the frame parse_frame returns for
\* the same buffer with any other length field in bytes 1..2 have the same
\* data units, crc, end flag and every other field but length, which is the
\* field's own value; the other call does not raise either.
C14_LengthIgnored ==
    Returned =>
        \A lf \in LengthFields :
            LET other == parse_frame(WithLength(frame_bytes, lf))
            IN  /\ ~other.raised
                /\ other.data_units = data_units
                /\ other.parsed.crc = parsed.crc
                /\ other.parsed.end_flag = parsed.end_flag
                /\ other.parsed = [parsed EXCEPT !.length = lf[1] * 256 + lf[2]]

\* a frame with a length field of 4 was returned with a unit that lies beyond
\* the 4 declared bytes
C14_Witness ==
    /\ Returned /\ parsed.length = 4 /\ data_units # << >>
    /\ parse_frame(WithLength(frame_bytes, <<255, 255>>)).data_units = data_units

-----------------------------------------------------------------------------
(* C15 *)

\* the bytes unit u spans without a result code
SpanWithoutResultCode(u) == 4 + (IF u.data_type = "F2" THEN 2 ELSE 0) + u.length

RECURSIVE SumWithoutResultCode(_)
SumWithoutResultCode(us) ==
    IF us = << >> THEN 0
    ELSE SpanWithoutResultCode(us[1]) + SumWithoutResultCode(Tail(us))

-----------------------------------------------------------------------------
(* C16 *)

\* C16: in a run that returns a frame the offset is never past the end of
\* the buffer, after the header, during the scan and after the trailer, so
\* that the two sequence bytes, the last the header reads, exist.
C16_OffsetInsideBuffer ==
    pc \in {"scan", "trailer", "done"} =>
        /\ offset <= BufLen
        /\ Len(parsed.seq) = 2

\* the offset never decreases
OffsetMonotone == [][offset' >= offset]_vars

\* from 15 bytes on the offset stays inside the buffer
OffsetInsideFrom15 == BufLen >= 15 => offset <= BufLen

-----------------------------------------------------------------------------
(* C17 *)

\* C17 as stated: for every pair of DA bytes the table number is not
\* negative, and it is 0 only when DA_L has no bit set.
C17_NonNegative ==
    pc = "da_done" =>
        /\ da_table_number >= 0
        /\ da_table_number = 0 => da_val[2] = 0

\* C17, amended: for every pair of DA bytes with DA_H >= 1 the table number
\* is not negative, and it is 0 only when DA_L has no bit set.
C17_NonNegativeFromGroup1 ==
    (pc = "da_done" /\ da_val[1] >= 1) =>
        /\ da_table_number >= 0
        /\ da_table_number = 0 => da_val[2] = 0

\* the table number of a DA of the first group with no bit set was computed
C17_Witness ==
    pc = "da_done" /\ da_val[1] = 1 /\ da_val[2] = 0 /\ da_table_number = 0

====
